---- MODULE Spec2Model ----
(***************************************************************************)
(* lusion-core: NetServer::serve (the accept loop and its dispatch of one  *)
(* task per accepted connection onto a futures ThreadPool), NetStream (the *)
(* pass-through wrapper of one accepted TcpStream) and the echo handler of *)
(* examples/echo.rs.  lusion-web: SecurityMiddleware, its cookie identity  *)
(* policy and the SecurityExt calls of an endpoint.                        *)
(*                                                                         *)
(* One action is one step of the code between two points where another     *)
(* thread or the peer can be observed: a statement of serve's start-up, one *)
(* iteration of the accept loop (await incoming.next(), wrap, spawn: there *)
(* is no await between the accept and the spawn), one poll_read/poll_write *)
(* of a handler future on a worker thread, one step of a client.           *)
(***************************************************************************)
EXTENDS Integers, Sequences, FiniteSets, TLC

\* ---------------------------------------------------------------- bounds
MaxConn == 2     \* clients that connect during one run
MaxEvents == 4   \* things the peers do during one run, all together
MaxPool == 2     \* largest pool_size (num_cpus::get()) considered
MaxWrite == 2    \* bytes the task that owns a write half has to write
MaxReq == 3      \* different requests (by cookie carried and by whether the
                 \* endpoint forgets) the security middleware handles
MaxCalls == 2    \* SecurityExt calls an endpoint makes during one request

\* The size of the buffer copy_into reads into: one poll_read returns at
\* most this many bytes.
BufCap == 2048

Conns == 1..MaxConn
\* The two halves socket.split() gives: the read half and the write half.
Halves == {"r", "w"}
\* The k-th byte client c sends.  The copy never looks at a byte's value, so
\* the payloads are chosen to tell every byte of every connection apart.
Payload(c, k) == <<c, k>>

\* The handler values a caller may pass to connect_handler: the echo function
\* of examples/echo.rs, and any other Handler<NetStream> implementation (its
\* future may return Pending, Ok or Err at every poll).
Handlers == {"echo", "other"}

\* Arguments of serve and what ToSocketAddrs::to_socket_addrs makes of them.
Addrs == {"0.0.0.0:1234", "localhost:1234", "nohost:1234", ""}
to_socket_addrs(a) ==
    CASE a = "0.0.0.0:1234"   -> [ok |-> TRUE,  addrs |-> <<"0.0.0.0:1234">>]
      [] a = "localhost:1234" -> [ok |-> TRUE,  addrs |-> <<"127.0.0.1:1234", "[::1]:1234">>]
      [] a = "nohost:1234"    -> [ok |-> FALSE, addrs |-> <<>>]
      [] OTHER                -> [ok |-> TRUE,  addrs |-> <<>>]

\* io::Error values.
AcceptErrs == {"EMFILE", "ECONNABORTED"}
ErrResolve == "failed to lookup address information"
ErrInvalidInput == "InvalidInput"
ErrHandlerNotSet == "Other: connect handler must be set"
ErrPoolCreate == "thread spawn failed"
ErrBind == "EADDRINUSE"
ErrSpawn == "Other: Thread pool execute error: SpawnError"
ErrReset == "ECONNRESET"
ErrOther == "handler failed"

VARIABLES
    pool_size,        \* NetServer.pool_size
    want,             \* the pool size the caller wants to configure: empty,
                      \* or the one number asked for.  No method of NetServer
                      \* takes it.
    connect_handler,  \* NetServer.connect_handler: "None" or a handler value
    pc,               \* where the caller / serve stands
    result,           \* what serve returned ("none" while it has not)
    arg,              \* serve's argument addr: A ("none" before the call)
    addr,             \* serve's local addr: the resolved socket address
    handler,          \* serve's local connect_handler (the Arc taken out of self)
    nworkers,         \* the ThreadPool: its worker threads (0: no pool yet)
    running,          \* the tasks a worker thread is polling
    listener,         \* the address the TcpListener is bound to, or "none"
    yielded,          \* the last item incoming.next() produced
    accepted,         \* the connections accepted so far, in order
    lost,             \* the connections whose task the pool refused
    queue,            \* the pool's channel of runnable tasks
    suspended,        \* tasks whose future returned Pending, awaiting a wake
    invoked,          \* the streams handed to handler.handle, in order
    tstate,           \* per connection: its task's position
    outcome,          \* per connection: what its handler future returned
    sock,             \* per connection: the accepted TcpStream, "none"
                      \* before the accept, then "open", then "closed"
    log,              \* the records written by log::error!
    peer,             \* another server process given the same address:
                      \* "none", "bound" (it holds the address) or the
                      \* error its bind returned
    nconn,            \* clients that have connected so far
    nevents,          \* what the peers have done so far: connects, bytes
                      \* sent, shutdowns and resets
    backlog,          \* connections established and not yet accepted
    sent,             \* per connection: the bytes its client has sent
    inbuf,            \* per connection: bytes received and not yet read
    wclosed,          \* per connection: the client closed its write side
    reset,            \* per connection: the transport failed (peer reset)
    buf,              \* per connection: the copy's buffer, buf[pos..cap]
    read_done,        \* per connection: the copy saw the zero-byte read
    echoed,           \* per connection: the bytes written back to the client
    lock,             \* a split stream: the half that holds the stream
                      \* between its two halves, or "free"
    lwaker,           \* the half whose waker the lock holds, or "none"
    half,             \* per half: where the task that owns it stands
    got,              \* the bytes the task that owns the read half has read
    policy,           \* SecurityMiddleware.policy: a CookieIdentityPolicy
    req,              \* the request SecurityMiddleware::handle is handling
    sc,               \* that request's SecurityContext: identity, changed
    calls,            \* the SecurityExt calls its endpoint has made, in order
    resp,             \* the last response: as the endpoint returned it
                      \* (inner) and as handle returned it (out)
    issued,           \* the identity cookies clients were sent so far
    served,           \* the requests handled so far
    ret,              \* the last poll of a NetStream by a handler: the
                      \* operation, what the wrapped TcpStream returned
                      \* (tcp) and what the NetStream returned (net)
    ncalls,           \* the calls that poll made on the wrapped TcpStream
    holding           \* the accept loop seen statement by statement: the
                      \* streams incoming has yielded to the loop body and
                      \* the body has not yet wrapped and spawned

config == <<pool_size, want, connect_handler, arg, addr, handler, listener>>
server == <<config, pc, result>>
loop == <<yielded, accepted, lost>>
pool == <<nworkers, running, queue, suspended, invoked, tstate, outcome, sock, log>>
net == <<peer, nconn, nevents, backlog, sent, inbuf, wclosed, reset, echoed>>
split == <<lock, lwaker, half, got>>
web == <<policy, req, sc, calls, resp, issued, served>>
pass == <<ret, ncalls>>
ext == <<web, pass, holding>>
copy == <<buf, read_done, split, ext>>
vars == <<server, loop, pool, net, copy>>

\* ------------------------------------------------------------- helpers
Range(s) == {s[i] : i \in 1..Len(s)}
Min(a, b) == IF a < b THEN a ELSE b
Take(s, n) == SubSeq(s, 1, n)
Drop(s, n) == SubSeq(s, n + 1, Len(s))
ConnOf(t) == t.stream.stream

\* ------------------------------------------------- lusion-web: security
\* Option<T>: None, or Some(x).
None == <<>>
Some(x) == <<x>>

\* The identities an endpoint may remember (Identity::new of any string).
Users == {"user", "admin"}

\* serde_json::to_string of an Identity (a newtype of String): the JSON
\* string, its text between two quotes.
to_string(id) == <<"\"", id, "\"">>
\* serde_json::from_str::<Identity>: the text of a JSON string, an error for
\* anything else.
from_str(v) ==
    IF Len(v) = 3 /\ v[1] = "\"" /\ v[3] = "\""
    THEN [ok |-> TRUE, val |-> v[2]]
    ELSE [ok |-> FALSE, val |-> ""]

\* The Cookie header of a request: absent, one the cookie parser rejects
\* (Cookie::parse_encoded fails on "foo": there is no '='), or one cookie
\* name=value.  The value of a private cookie is sealed under a Key: only a
\* holder of the key makes it or reads it, which the field key stands for
\* ("" for a value that is not sealed).
NoCookie == [kind |-> "none", name |-> "", key |-> "", value |-> <<>>]
Malformed == [kind |-> "malformed", name |-> "", key |-> "", value |-> <<>>]
Pair(n, k, v) == [kind |-> "cookie", name |-> n, key |-> k, value |-> v]

\* jar.private(key).add(cookie): the cookie with its value sealed.
private_add(k, n, v) == Pair(n, k, v)
\* jar.private(key).get(name): the opened value of the cookie of that name,
\* None when there is no such cookie or it does not open under the key.
private_get(k, n, hdr) ==
    IF hdr.kind = "cookie" /\ hdr.name = n /\ hdr.key = k
    THEN Some(hdr.value)
    ELSE None

\* CookieIdentityPolicy: the key, the cookie's name and its path (domain,
\* secure and max_age are further attributes of the same kind as path).
\* A path is any String; HeaderValue::from_str refuses a value that holds a
\* control character.
DefaultName == "tide-auth"
Paths == {"/", "/\n"}
Visible(path) == path = "/"
CookieIdentityPolicy_default == [key |-> "server", name |-> DefaultName, path |-> "/"]
Policies == {[CookieIdentityPolicy_default EXCEPT !.path = q] : q \in Paths}

\* One Set-Cookie header: the pair, the path, and whether it removes the
\* cookie (empty value, Max-Age=0, an expiry in the past).
SetCookie(pr, q, rm) == [pair |-> pr, path |-> q, removal |-> rm]
HeaderValue_from_str(h) == Visible(h.path)

\* Responses.  An endpoint answers 200, with or without a cookie of its own.
Response(st, hs, b) == [status |-> st, set_cookie |-> hs, body |-> b]
NoResponse == Response(0, <<>>, "")
EndpointResponses ==
    { Response(200, <<>>, "ok"),
      Response(200, <<SetCookie(Pair("lang", "", <<"en">>), "/", FALSE)>>, "ok") }
InternalServerError == Response(500, <<>>, "")

\* A policy that keeps, on the server, the cookies a forget was made with.
from_requestRevoked(p, hdr) ==
    IF hdr.kind = "malformed"
    THEN [ok |-> FALSE, val |-> None]
    ELSE LET auth_cookie == private_get(p.key, p.name, hdr) IN
         IF auth_cookie = None \/ \E r \in served : r.header = hdr /\ r.forgot
         THEN [ok |-> TRUE, val |-> None]
         ELSE [ok |-> TRUE, val |-> Some(from_str(auth_cookie[1]).val)]

\* CookieIdentityPolicy::from_request.
from_request(p, hdr) ==
    IF hdr.kind = "malformed"
    THEN [ok |-> FALSE, val |-> None]
    ELSE LET auth_cookie == private_get(p.key, p.name, hdr) IN
         IF auth_cookie = None
         THEN [ok |-> TRUE, val |-> None]
         ELSE LET id == from_str(auth_cookie[1]) IN
              IF id.ok THEN [ok |-> TRUE, val |-> Some(id.val)]
                       ELSE [ok |-> FALSE, val |-> None]

\* The one cookie of jar.delta() in write_response: the sealed identity, or
\* the removal of the cookie.
Delta(p, id) ==
    IF id # None
    THEN SetCookie(private_add(p.key, p.name, to_string(id[1])), p.path, FALSE)
    ELSE SetCookie(Pair(p.name, "", <<>>), p.path, TRUE)

\* CookieIdentityPolicy::write_response.
write_response(p, id, r) ==
    IF HeaderValue_from_str(Delta(p, id))
    THEN [r EXCEPT !.set_cookie = Append(@, Delta(p, id))]
    ELSE InternalServerError

\* What clients may put in a Cookie header without having been sent it:
\* nothing, a header the parser rejects, an identity sealed under a key of
\* their own, a cookie of another name.
ClientMade ==
    { NoCookie, Malformed,
      Pair(DefaultName, "client", to_string("admin")),
      Pair("lang", "", <<"en">>) }

\* No poll of a NetStream made.
NoPoll == [op |-> "none",
           tcp |-> [tag |-> "none", err |-> "", n |-> 0],
           net |-> [tag |-> "none", err |-> "", n |-> 0]]

\* No request in hand.
IdleRequest == [state |-> "idle", header |-> NoCookie, seen |-> None]
Idle ==
    /\ req = IdleRequest
    /\ sc = [identity |-> None, changed |-> FALSE]
    /\ calls = <<>>
    /\ resp = [inner |-> NoResponse, out |-> NoResponse]
    /\ issued = {}
    /\ served = {}
    /\ ret = NoPoll
    /\ ncalls = 0
    /\ holding = <<>>

\* ------------------------------------------------------------ NetServer
\* NetServer::new: pool_size is num_cpus::get().
New ==
    /\ pool_size \in 1..MaxPool
    /\ connect_handler = "None"
    /\ pc = "built"
    /\ result = "none"
    /\ arg = "none"
    /\ addr = "none"
    /\ handler = "None"
    /\ nworkers = 0
    /\ running = {}
    /\ listener = "none"
    /\ yielded = [tag |-> "none", conn |-> 0, err |-> ""]
    /\ accepted = <<>>
    /\ lost = {}
    /\ queue = <<>>
    /\ suspended = {}
    /\ invoked = <<>>
    /\ tstate = [c \in Conns |-> "none"]
    /\ outcome = [c \in Conns |-> "none"]
    /\ sock = [c \in Conns |-> "none"]
    /\ log = <<>>
    /\ peer = "none"
    /\ nconn = 0
    /\ nevents = 0
    /\ backlog = <<>>
    /\ sent = [c \in Conns |-> <<>>]
    /\ inbuf = [c \in Conns |-> <<>>]
    /\ wclosed = [c \in Conns |-> FALSE]
    /\ reset = [c \in Conns |-> FALSE]
    /\ buf = [c \in Conns |-> <<>>]
    /\ read_done = [c \in Conns |-> FALSE]
    /\ echoed = [c \in Conns |-> <<>>]
    /\ lock = "free"
    /\ lwaker = "none"
    /\ half = [h \in Halves |-> "idle"]
    /\ got = <<>>
    /\ Idle

\* A caller that asks for no pool size.
Init ==
    /\ want = {}
    /\ policy = CookieIdentityPolicy_default
    /\ New

\* A caller that may ask for a pool size of its own.
InitOverride ==
    /\ want \in {{}} \cup {{n} : n \in 1..MaxPool}
    /\ policy = CookieIdentityPolicy_default
    /\ New

\* A builder call that starts again from a one-thread configuration.
ConnectHandlerResets(h) ==
    /\ pc = "built"
    /\ connect_handler' = h
    /\ pool_size' = 1
    /\ UNCHANGED <<want, arg, pc, result, addr, handler, listener>>
    /\ UNCHANGED <<loop, pool, net, copy>>

\* NetServer::connect_handler
ConnectHandler(h) ==
    /\ pc = "built"
    /\ connect_handler' = h
    /\ UNCHANGED <<pool_size, want, arg, pc, result, addr, handler, listener>>
    /\ UNCHANGED <<loop, pool, net, copy>>

\* A serve that borrows the Server: after the return the caller holds it
\* again, as it was built.
ReturnKeeps(e) ==
    /\ pc' = "built"
    /\ result' = e

\* serve returns Err(e): the caller gets e and the Server value is gone.
Return(e) ==
    /\ pc' = "returned"
    /\ result' = e

\* An iterator step that gives the last address instead of the first.
iter_last(addrs) == addrs[Len(addrs)]

\* serve, line 39: .next() on the iterator of resolved addresses, when it
\* is not empty.
iter_next(addrs) == Head(addrs)

\* serve, lines 37-40: addr.to_socket_addrs()?.next().ok_or(InvalidInput)?
\* A serve that looks for the handler before it resolves the address.
ServeResolveChecksHandler(a) ==
    /\ pc = "built"
    /\ arg' = a
    /\ LET r == to_socket_addrs(a) IN
         IF connect_handler = "None" THEN Return(ErrHandlerNotSet) /\ addr' = addr
         ELSE IF ~r.ok THEN Return(ErrResolve) /\ addr' = addr
         ELSE IF r.addrs = <<>> THEN Return(ErrInvalidInput) /\ addr' = addr
         ELSE pc' = "resolved" /\ result' = result
              /\ addr' = iter_next(r.addrs)
    /\ UNCHANGED <<pool_size, want, connect_handler, handler, listener>>
    /\ UNCHANGED <<loop, pool, net, copy>>

ServeResolve(a) ==
    /\ pc = "built"
    /\ arg' = a
    /\ LET r == to_socket_addrs(a) IN
         IF ~r.ok THEN Return(ErrResolve) /\ addr' = addr
         ELSE IF r.addrs = <<>> THEN Return(ErrInvalidInput) /\ addr' = addr
         ELSE pc' = "resolved" /\ result' = result
              /\ addr' = iter_next(r.addrs)
    /\ UNCHANGED <<pool_size, want, connect_handler, handler, listener>>
    /\ UNCHANGED <<loop, pool, net, copy>>

\* A check that lets an unset handler through.
IsNoneNever(opt) == FALSE

\* Option::take().ok_or_else(..): whether the option holds no handler.
IsNone(opt) == opt = "None"

\* serve, lines 41-44: self.connect_handler.take().ok_or_else(..)?
ServeTakeHandler ==
    /\ pc = "resolved"
    /\ IF IsNone(connect_handler)
         THEN Return(ErrHandlerNotSet) /\ handler' = handler
         ELSE pc' = "taken" /\ result' = result /\ handler' = connect_handler
    /\ connect_handler' = "None"
    /\ UNCHANGED <<pool_size, want, arg, addr, listener>>
    /\ UNCHANGED <<loop, pool, net, copy>>

\* A pool built with one thread more than asked for.
ThreadPoolCreateExtra(n) == n + 1

\* serve, line 47: ThreadPool::builder().pool_size(self.pool_size).create()?
\* The number of worker threads of the pool created.
ThreadPoolCreate(n) == n

\* A serve that binds the listening socket before it creates the pool.
ServeCreatePoolAfterBind ==
    /\ pc = "taken"
    /\ listener' = addr
    /\ \/ pc' = "pooled" /\ result' = result
          /\ nworkers' = ThreadPoolCreate(pool_size)
       \/ Return(ErrPoolCreate) /\ nworkers' = nworkers
    /\ UNCHANGED <<pool_size, want, arg, connect_handler, addr, handler>>
    /\ UNCHANGED <<running, queue, suspended, invoked, tstate, outcome, sock, log>>
    /\ UNCHANGED <<loop, net, copy>>

ServeCreatePool ==
    /\ pc = "taken"
    /\ \/ pc' = "pooled" /\ result' = result
          /\ nworkers' = ThreadPoolCreate(pool_size)
       \/ Return(ErrPoolCreate) /\ nworkers' = nworkers
    /\ UNCHANGED <<pool_size, want, arg, connect_handler, addr, handler, listener>>
    /\ UNCHANGED <<running, queue, suspended, invoked, tstate, outcome, sock, log>>
    /\ UNCHANGED <<loop, net, copy>>

\* A serve that tries the bind again until it has a listening socket.
ServeBindRetry ==
    /\ pc = "pooled"
    /\ pc' = "serving" /\ result' = result /\ listener' = addr
    /\ UNCHANGED <<pool_size, want, arg, connect_handler, addr, handler>>
    /\ UNCHANGED <<loop, pool, net, copy>>

\* serve, lines 48-49: TcpListener::bind(&addr)?; listener.incoming().  The
\* bind fails when another socket holds the address (the other server, or a
\* process that is not part of the model), and serve returns its error.
ServeBind ==
    /\ pc = "pooled"
    /\ \/ /\ peer # "bound"
          /\ pc' = "serving" /\ result' = result /\ listener' = addr
       \/ Return(ErrBind) /\ listener' = listener
    /\ UNCHANGED <<pool_size, want, arg, connect_handler, addr, handler>>
    /\ UNCHANGED <<loop, pool, net, copy>>


\* ---------------------------------------------------------- accept loop
\* NetStream::new
NetStream_new(conn) == [stream |-> conn]

\* A task that runs a handler made for its connection instead of the
\* server's.
TaskFresh(h, stream) == [stream |-> stream, handler |-> "other"]

\* serve, lines 55-60: the task spawned for one stream.
Task(h, stream) == [stream |-> stream, handler |-> h]

\* ThreadPool::spawn, the Ok case: the task is sent on the pool's channel.
Spawn(q, t) == Append(q, t)

\* An accept loop that wraps the listener's error in a new io::Error.
AcceptFailureWrapped(e) == "Other: accept failed"

\* serve, line 52: stream.map(NetStream::new)? on Err(e) returns e itself.
AcceptFailure(e) == e

\* serve, lines 61-66: the io::Error made of a SpawnError.
SpawnFailure == ErrSpawn

\* An accept loop that drops the refused task and goes on accepting.
SpawnRefusedIgnored(c) ==
    /\ UNCHANGED <<pc, result>>
    /\ lost' = lost \cup {c}

\* serve, lines 61-66: the spawn failed.  The task, and the stream in it, is
\* dropped and serve returns the error made of the SpawnError.
SpawnRefused(c) ==
    /\ Return(SpawnFailure)
    /\ lost' = lost \cup {c}

\* An accept loop that awaits the task it spawned before it accepts again.
LoopReadyAwaits ==
    \A c \in Range(accepted) : tstate[c] = "done" \/ c \in lost

\* serve, lines 51-67: whether the loop stands at await!(incoming.next()).
\* spawn returns as soon as the task is sent on the pool's channel, which
\* has no capacity limit, and the loop awaits nothing else: it is back at
\* incoming.next() whatever the tasks spawned before are doing.
LoopReady == TRUE

\* A listener stream that can end.
IncomingEndsSome == {"None"}

\* The ways the stream `incoming` can end (incoming.next() is None, line 51).
\* There is none: a romio Incoming is Pending until an accept succeeds or
\* fails and then yields Some(Ok(stream)) or Some(Err(e)).
IncomingEnds == {}

\* One iteration of the while loop, lines 51-67, when incoming.next()
\* produces no connection: Some(Err(e)), which line 52 returns from serve,
\* or None, on which the loop is left and line 68 returns Ok(()).
AcceptErr(e) ==
    /\ pc = "serving"
    /\ LoopReady
    /\ IF e \in IncomingEnds
         THEN /\ yielded' = [tag |-> "None", conn |-> 0, err |-> ""]
              /\ Return("Ok")
         ELSE /\ yielded' = [tag |-> "Err", conn |-> 0, err |-> e]
              /\ Return(AcceptFailure(e))
    /\ UNCHANGED <<accepted, lost>>
    /\ UNCHANGED <<pool_size, want, arg, connect_handler, addr, handler, listener>>
    /\ UNCHANGED <<pool, net, copy>>

\* A stream that is forgotten instead of dropped: its socket stays open.
DropStreamLeaks(sk, c) == [sk EXCEPT ![c] = "open"]

\* The NetStream of connection c is dropped, and with it the TcpStream it
\* owns (stream.rs, lines 9-11): the socket is closed.  A stream is owned by
\* its task's future: it is dropped when the future has completed, and when
\* the pool refuses the task.
DropStream(sk, c) == [sk EXCEPT ![c] = "closed"]

\* One iteration when incoming.next() produces Some(Ok(stream)): the stream
\* is wrapped, the handler reference cloned and the task spawned, or the
\* spawn fails and serve returns.
AcceptSpawn ==
    /\ pc = "serving"
    /\ LoopReady
    /\ backlog # <<>>
    /\ LET c == Head(backlog)
           t == Task(handler, NetStream_new(c))
       IN /\ yielded' = [tag |-> "Ok", conn |-> c, err |-> ""]
          /\ backlog' = Tail(backlog)
          /\ accepted' = Append(accepted, c)
          /\ \/ /\ queue' = Spawn(queue, t)
                /\ tstate' = [tstate EXCEPT ![c] = "spawned"]
                /\ sock' = [sock EXCEPT ![c] = "open"]
                /\ UNCHANGED <<pc, result, lost>>
             \/ /\ SpawnRefused(c)
                /\ sock' = DropStream(sock, c)
                /\ UNCHANGED <<queue, tstate>>
    /\ UNCHANGED <<pool_size, want, arg, connect_handler, addr, handler, listener>>
    /\ UNCHANGED <<nworkers, running, suspended, invoked, outcome, log>>
    /\ UNCHANGED <<peer, nconn, nevents, sent, inbuf, wclosed, reset, echoed>>
    /\ UNCHANGED copy

\* ------------------------------- the accept loop, statement by statement
\* A loop that takes the next stream while it still holds one.
AtAwaitAlways == TRUE

\* Whether the loop is at the await of line 51: the body of the iteration
\* before has run to its end, so the loop holds no stream.
AtAwait == holding = <<>>

\* serve, line 51: await!(incoming.next()) produces Some(Ok(stream)) and the
\* loop body starts with it.
LoopAccept ==
    /\ pc = "serving"
    /\ LoopReady
    /\ AtAwait
    /\ backlog # <<>>
    /\ LET c == Head(backlog)
       IN /\ yielded' = [tag |-> "Ok", conn |-> c, err |-> ""]
          /\ backlog' = Tail(backlog)
          /\ accepted' = Append(accepted, c)
          /\ holding' = Append(holding, c)
          /\ sock' = [sock EXCEPT ![c] = "open"]
    /\ UNCHANGED lost
    /\ UNCHANGED <<nworkers, running, queue, suspended, invoked, tstate, outcome, log>>
    /\ UNCHANGED <<peer, nconn, nevents, sent, inbuf, wclosed, reset, echoed>>
    /\ UNCHANGED <<buf, read_done, split, web, pass>>
    /\ UNCHANGED server

\* serve, lines 52-66: the stream is wrapped, the handler reference cloned
\* and the task spawned, or the spawn fails and serve returns.
LoopSpawn ==
    /\ pc = "serving"
    /\ holding # <<>>
    /\ LET c == Head(holding)
           t == Task(handler, NetStream_new(c))
       IN /\ holding' = Tail(holding)
          /\ \/ /\ queue' = Spawn(queue, t)
                /\ tstate' = [tstate EXCEPT ![c] = "spawned"]
                /\ UNCHANGED <<pc, result, lost, sock>>
             \/ /\ SpawnRefused(c)
                /\ sock' = DropStream(sock, c)
                /\ UNCHANGED <<queue, tstate>>
    /\ UNCHANGED <<yielded, accepted>>
    /\ UNCHANGED <<pool_size, want, arg, connect_handler, addr, handler, listener>>
    /\ UNCHANGED <<nworkers, running, suspended, invoked, outcome, log>>
    /\ UNCHANGED <<buf, read_done, split, web, pass>>
    /\ UNCHANGED net

\* serve, line 51: incoming.next() produces an error (or the end of the
\* stream) at the await.
LoopAcceptErr(e) ==
    /\ AtAwait
    /\ AcceptErr(e)

\* ---------------------------------------------------------- worker pool
\* An async block that evaluates handle(stream) at every poll.
FirstPollAlways(st) == TRUE

\* Whether a poll of the task is its first: the async block of lines 55-60
\* then evaluates connect_handler.handle(stream); later polls resume the await.
FirstPoll(st) == st = "spawned"

\* A pool that starts one more thread when every worker is busy.
IdleWorkerAlways == TRUE

\* Whether a worker thread of the pool polls no task: the pool has the
\* threads it was created with (line 47) and each polls one task at a time.
IdleWorker == Cardinality(running) < nworkers

\* A worker thread that polls no task receives the next runnable task from
\* the channel and polls it.
WorkerRun ==
    /\ IdleWorker
    /\ queue # <<>>
    /\ LET t == Head(queue)
           c == ConnOf(t)
       IN /\ running' = running \cup {t}
          /\ queue' = Tail(queue)
          /\ IF FirstPoll(tstate[c])
               THEN invoked' = Append(invoked, t.stream)
               ELSE invoked' = invoked
          /\ tstate' = [tstate EXCEPT ![c] = "started"]
    /\ UNCHANGED <<nworkers, suspended, outcome, sock, log>>
    /\ UNCHANGED <<server, loop, net, copy>>

\* serve, line 58: what a reader of the log sees of a record, the text
\* "connect handler error: {:?}" with the error's Debug form.
RecordText(r) == [msg |-> r.msg, err |-> r.err]

\* A task that never writes the record of its handler's error.
LogOutcomeSilent(lg, c, r) == lg

\* A task body that writes a record for every outcome, Ok included.
LogOutcomeAlways(lg, c, r) ==
    Append(lg, [msg |-> "connect handler error", err |-> r,
                by |-> c, seen |-> Len(accepted)])

\* serve, lines 56-59: Ok(()) => {}, Err(e) => log::error!(..).  The fields
\* by and seen are not part of the record's text: they name the task that
\* wrote it and how many connections had been accepted when it did.
LogOutcome(lg, c, r) ==
    IF r = "Ok" THEN lg
    ELSE Append(lg, [msg |-> "connect handler error", err |-> r,
                     by |-> c, seen |-> Len(accepted)])

\* A task body that unwraps the handler's result: an Err kills the worker
\* thread that polled the task.
CompletePanics(t, r) ==
    LET c == ConnOf(t) IN
    /\ outcome' = [outcome EXCEPT ![c] = r]
    /\ sock' = DropStream(sock, c)
    /\ tstate' = [tstate EXCEPT ![c] = "done"]
    /\ log' = LogOutcome(log, c, r)
    /\ running' = running \ {t}
    /\ nworkers' = IF r = "Ok" THEN nworkers ELSE nworkers - 1
    /\ UNCHANGED <<queue, suspended, invoked>>
    /\ UNCHANGED <<pc, result>>

\* A task body that hands the handler's error to the accept loop, which
\* returns it from serve.
CompletePropagates(t, r) ==
    LET c == ConnOf(t) IN
    /\ outcome' = [outcome EXCEPT ![c] = r]
    /\ sock' = DropStream(sock, c)
    /\ tstate' = [tstate EXCEPT ![c] = "done"]
    /\ log' = LogOutcome(log, c, r)
    /\ running' = running \ {t}
    /\ UNCHANGED <<nworkers, queue, suspended, invoked>>
    /\ IF r = "Ok" THEN UNCHANGED <<pc, result>> ELSE Return(r)

\* The handler future of task t is Ready(r): the task is finished and the
\* worker thread that polled it is free.
Complete(t, r) ==
    LET c == ConnOf(t) IN
    /\ outcome' = [outcome EXCEPT ![c] = r]
    /\ sock' = DropStream(sock, c)
    /\ tstate' = [tstate EXCEPT ![c] = "done"]
    /\ log' = LogOutcome(log, c, r)
    /\ running' = running \ {t}
    /\ UNCHANGED <<nworkers, queue, suspended, invoked>>
    /\ UNCHANGED <<pc, result>>

\* The handler future of task t is Pending: its worker is free for the next
\* task and this one waits for its waker.
Suspend(t) ==
    /\ suspended' = suspended \cup {t}
    /\ running' = running \ {t}
    /\ UNCHANGED <<nworkers, queue, invoked, tstate, outcome, sock, log>>
    /\ UNCHANGED <<pc, result>>

\* The poll goes on: the future is neither Ready nor Pending yet.
Continue == UNCHANGED <<pool, pc, result>>

\* Task t, whose handler is h, is being polled by a worker thread.
Polling(t, h) ==
    /\ t \in running
    /\ t.handler = h
    /\ tstate[ConnOf(t)] # "blocked"

\* ------------------------------------------------- NetStream and echo
\* TcpStream::poll_read on connection c, the stream a NetStream wraps.
\* The set of results the transport can give for a buffer of
\* BufCap bytes: an I/O error, n bytes (n > 0), end of stream (0), Pending.
TcpStream_poll_read(c) ==
    IF reset[c] THEN {[tag |-> "Err", err |-> ErrReset, n |-> 0]}
    ELSE IF inbuf[c] # <<>>
      THEN {[tag |-> "Ready", err |-> "", n |-> k] :
                k \in 1..Min(Len(inbuf[c]), BufCap)}
    ELSE IF wclosed[c] THEN {[tag |-> "Ready", err |-> "", n |-> 0]}
    ELSE {[tag |-> "Pending", err |-> "", n |-> 0]}

\* TcpStream::poll_write with len bytes offered: an I/O error, i bytes
\* taken (i > 0), or Pending.
TcpStream_poll_write(c, len) ==
    IF reset[c] THEN {[tag |-> "Err", err |-> ErrReset, n |-> 0]}
    ELSE {[tag |-> "Ready", err |-> "", n |-> k] : k \in 1..len}
         \cup {[tag |-> "Pending", err |-> "", n |-> 0]}

\* TcpStream::poll_flush and TcpStream::poll_close: an I/O error, done, or
\* Pending.
TcpStream_poll_flush(c) ==
    IF reset[c] THEN {[tag |-> "Err", err |-> ErrReset, n |-> 0]}
    ELSE {[tag |-> "Ready", err |-> "", n |-> 0],
          [tag |-> "Pending", err |-> "", n |-> 0]}
TcpStream_poll_close(c) == TcpStream_poll_flush(c)

\* A wrapper that calls the wrapped stream again when the call failed.
DelegateRetry(outs) ==
    IF outs[1].tag = "Err"
    THEN [ret |-> outs[2], calls |-> 2]
    ELSE [ret |-> outs[1], calls |-> 1]

\* The body of every poll function of NetStream: self.stream().poll_x(..),
\* one call on the wrapped TcpStream whose outcome is the result.  outs are
\* the outcomes successive calls on the wrapped stream give.
Delegate(outs) == [ret |-> outs[1], calls |-> 1]

\* NetStream::poll_read on the NetStream that wraps connection c.
poll_read(c) == {Delegate(<<r, r>>).ret : r \in TcpStream_poll_read(c)}

\* NetStream::poll_write, with len bytes offered.
poll_write(c, len) == {Delegate(<<r, r>>).ret : r \in TcpStream_poll_write(c, len)}

\* A copy whose writer is one socket shared by every task.
WriterOfShared(c) == 1

\* The connection the copy of the task on stream c writes to: echo splits
\* its own socket, so the writer is the write half of the same connection.
WriterOf(c) == c

\* echo, line 14: reader.copy_into(&mut writer), the read step: the buffer
\* is empty and end of stream was not seen.
EchoRead(t) ==
    /\ Polling(t, "echo")
    /\ LET c == ConnOf(t) IN
       /\ buf[c] = <<>> /\ ~read_done[c]
       /\ \E r \in poll_read(c) :
            CASE r.tag = "Err" ->
                   /\ Complete(t, r.err)
                   /\ UNCHANGED <<inbuf, buf, read_done>>
              [] r.tag = "Pending" ->
                   /\ Suspend(t)
                   /\ UNCHANGED <<inbuf, buf, read_done>>
              [] r.tag = "Ready" /\ r.n = 0 ->
                   /\ read_done' = [read_done EXCEPT ![c] = TRUE]
                   /\ UNCHANGED <<inbuf, buf>>
                   /\ Continue
              [] OTHER ->
                   /\ buf' = [buf EXCEPT ![c] = Take(inbuf[c], r.n)]
                   /\ inbuf' = [inbuf EXCEPT ![c] = Drop(inbuf[c], r.n)]
                   /\ UNCHANGED read_done
                   /\ Continue
    /\ UNCHANGED <<peer, nconn, nevents, backlog, sent, wclosed, reset, echoed>>
    /\ UNCHANGED <<config, loop, split, ext>>

\* The write step of the copy: bytes read and not yet written are offered
\* to the writer, which takes some of them.
EchoWrite(t) ==
    /\ Polling(t, "echo")
    /\ LET c == ConnOf(t) IN
       /\ buf[c] # <<>>
       /\ \E r \in poll_write(WriterOf(c), Len(buf[c])) :
            CASE r.tag = "Err" ->
                   /\ Complete(t, r.err)
                   /\ UNCHANGED <<echoed, buf>>
              [] r.tag = "Pending" ->
                   /\ Suspend(t)
                   /\ UNCHANGED <<echoed, buf>>
              [] OTHER ->
                   /\ echoed' = [echoed EXCEPT ![WriterOf(c)] =
                                     echoed[WriterOf(c)] \o Take(buf[c], r.n)]
                   /\ buf' = [buf EXCEPT ![c] = Drop(buf[c], r.n)]
                   /\ Continue
    /\ UNCHANGED <<peer, nconn, nevents, backlog, sent, inbuf, wclosed, reset,
                   read_done>>
    /\ UNCHANGED <<config, loop, split, ext>>

\* The end of the copy: everything read was written and end of stream was
\* seen; the writer is flushed (a TcpStream's flush is Ok at once) and echo
\* returns Ok(()), lines 14-15.
EchoFinish(t) ==
    /\ Polling(t, "echo")
    /\ LET c == ConnOf(t) IN
       /\ buf[c] = <<>> /\ read_done[c]
       /\ Complete(t, "Ok")
    /\ UNCHANGED <<config, loop, net, copy>>

\* Any other handler: a poll of its future is Pending, Ok or Err.
OtherPoll(t) ==
    /\ Polling(t, "other")
    /\ \/ Suspend(t)
       \/ Complete(t, "Ok")
       \/ Complete(t, ErrOther)
    /\ UNCHANGED <<config, loop, net, copy>>

\* A handler whose poll does not return: it blocks the worker thread that
\* polls it (a blocking call, an endless loop) instead of awaiting.  The task
\* stays on its worker; nothing in serve or in the task (lines 55-60) ends
\* the poll from outside.
OtherBlock(t) ==
    /\ Polling(t, "other")
    /\ tstate' = [tstate EXCEPT ![ConnOf(t)] = "blocked"]
    /\ UNCHANGED <<nworkers, running, queue, suspended, invoked, outcome,
                   sock, log>>
    /\ UNCHANGED <<server, loop, net, copy>>

\* A reactor that does not wake a reader when the peer closes its write side.
ReadyDataOnly(t) ==
    LET c == ConnOf(t) IN
    \/ t.handler = "other"
    \/ buf[c] # <<>>
    \/ inbuf[c] # <<>> \/ reset[c]

\* What a suspended task waits for: the echo copy for its stream to be
\* readable (data, end of stream or an error) or writable.
Ready(t) ==
    LET c == ConnOf(t) IN
    \/ t.handler = "other"
    \/ buf[c] # <<>>
    \/ inbuf[c] # <<>> \/ wclosed[c] \/ reset[c]

\* A waker that puts the woken task ahead of every task in the channel.
WakeFirst(t) ==
    /\ t \in suspended
    /\ Ready(t)
    /\ suspended' = suspended \ {t}
    /\ queue' = <<t>> \o queue
    /\ UNCHANGED <<nworkers, running, invoked, tstate, outcome, sock, log>>
    /\ UNCHANGED <<server, loop, net, copy>>

\* The task's waker: the task is sent on the pool's channel again.
Wake(t) ==
    /\ t \in suspended
    /\ Ready(t)
    /\ suspended' = suspended \ {t}
    /\ queue' = Append(queue, t)
    /\ UNCHANGED <<nworkers, running, invoked, tstate, outcome, sock, log>>
    /\ UNCHANGED <<server, loop, net, copy>>

\* ------------------------------------------ a split stream, two tasks
\* A handler that splits its stream as echo does (echo.rs, line 13) and gives
\* each half to a task of its own.  The halves share the NetStream behind a
\* lock with room for one waker; a poll of a half takes the lock, polls the
\* NetStream (stream.rs, lines 21-38) and gives the lock back when it
\* returns.  A half is "idle" when its task is about to poll it, "locked"
\* inside the poll, "parked" when the poll was Pending on the lock, "iowait"
\* when it was Pending on the socket, "done" after end of stream, the last
\* byte or an error.

\* The stream that was split: the one of the first accepted connection.
SplitConn == Head(accepted)

\* The bytes the task that owns the write half writes, in order.
WriterBytes == [k \in 1..MaxWrite |-> Payload(0, k)]

\* The start of a poll of half h: poll_lock.
PollLock(h) ==
    /\ half[h] = "idle"
    /\ IF lock \in {"free", h}
         THEN /\ lock' = h
              /\ half' = [half EXCEPT ![h] = "locked"]
              /\ lwaker' = lwaker
         ELSE /\ lwaker' = h
              /\ half' = [half EXCEPT ![h] = "parked"]
              /\ lock' = lock
    /\ UNCHANGED <<got, buf, read_done, ext>>
    /\ UNCHANGED <<server, loop, pool, net>>

\* A guard that is kept while the poll it was taken for is Pending.
ReleasedWhenReady(tag) == tag # "Pending"

\* Whether the lock is given back when the poll of the NetStream returned
\* tag: the guard is a local of the poll and is dropped at every return.
Released(tag) == TRUE

\* The end of a poll of half h that returned tag and leaves h in state st:
\* the lock is given back and the half that parked on it is woken.
Unlock(h, tag, st) ==
    IF Released(tag)
      THEN /\ lock' = "free"
           /\ lwaker' = "none"
           /\ half' = [x \in Halves |->
                          IF x = h THEN st
                          ELSE IF x = lwaker THEN "idle" ELSE half[x]]
      ELSE /\ half' = [half EXCEPT ![h] = st]
           /\ UNCHANGED <<lock, lwaker>>

\* The poll of the read half: NetStream::poll_read under the lock.
HalfRead ==
    /\ half["r"] = "locked"
    /\ LET c == SplitConn IN
       \E r \in poll_read(c) :
          CASE r.tag = "Err" ->
                 /\ Unlock("r", r.tag, "done")
                 /\ UNCHANGED <<got, inbuf>>
            [] r.tag = "Pending" ->
                 /\ Unlock("r", r.tag, "iowait")
                 /\ UNCHANGED <<got, inbuf>>
            [] r.tag = "Ready" /\ r.n = 0 ->
                 /\ Unlock("r", r.tag, "done")
                 /\ UNCHANGED <<got, inbuf>>
            [] OTHER ->
                 /\ Unlock("r", r.tag, "idle")
                 /\ got' = got \o Take(inbuf[c], r.n)
                 /\ inbuf' = [inbuf EXCEPT ![c] = Drop(inbuf[c], r.n)]
    /\ UNCHANGED <<peer, nconn, nevents, backlog, sent, wclosed, reset, echoed>>
    /\ UNCHANGED <<buf, read_done, ext>>
    /\ UNCHANGED <<server, loop, pool>>

\* The poll of the write half: NetStream::poll_write under the lock, with
\* the bytes not written yet.
HalfWrite ==
    /\ half["w"] = "locked"
    /\ LET c == SplitConn
           rest == Drop(WriterBytes, Len(echoed[c]))
       IN
       \E r \in poll_write(c, Len(rest)) :
          CASE r.tag = "Err" ->
                 /\ Unlock("w", r.tag, "done")
                 /\ UNCHANGED echoed
            [] r.tag = "Pending" ->
                 /\ Unlock("w", r.tag, "iowait")
                 /\ UNCHANGED echoed
            [] OTHER ->
                 /\ Unlock("w", r.tag,
                           IF r.n = Len(rest) THEN "done" ELSE "idle")
                 /\ echoed' = [echoed EXCEPT ![c] =
                                   echoed[c] \o Take(rest, r.n)]
    /\ UNCHANGED <<peer, nconn, nevents, backlog, sent, inbuf, wclosed, reset>>
    /\ UNCHANGED <<got, buf, read_done, ext>>
    /\ UNCHANGED <<server, loop, pool>>

\* The waker of a half whose poll was Pending on the socket: the socket is
\* readable (data, end of stream or an error), or writable.
IoWake(h) ==
    /\ half[h] = "iowait"
    /\ LET c == SplitConn IN
       h = "r" => (inbuf[c] # <<>> \/ wclosed[c] \/ reset[c])
    /\ half' = [half EXCEPT ![h] = "idle"]
    /\ UNCHANGED <<lock, lwaker, got, buf, read_done, ext>>
    /\ UNCHANGED <<server, loop, pool, net>>

\* ---------------------------------------------------------------- peers
\* One more thing a peer does.
Event == nevents < MaxEvents /\ nevents' = nevents + 1

\* Another server process calls serve with the same address.  Its bind
\* (line 48) returns the error when this server is listening on the
\* address; otherwise it holds the address from then on.
PeerBind ==
    /\ addr # "none"
    /\ peer = "none"
    /\ Event
    /\ peer' = IF pc = "serving" THEN ErrBind ELSE "bound"
    /\ UNCHANGED <<nconn, backlog, sent, inbuf, wclosed, reset, echoed>>
    /\ UNCHANGED <<server, loop, pool, copy>>

ClientConnect ==
    /\ pc = "serving"
    /\ nconn < MaxConn
    /\ Event
    /\ nconn' = nconn + 1
    /\ backlog' = Append(backlog, nconn + 1)
    /\ UNCHANGED <<peer, sent, inbuf, wclosed, reset, echoed>>
    /\ UNCHANGED <<server, loop, pool, copy>>

Open(c) == c \in 1..nconn /\ ~reset[c]

ClientSend(c) ==
    /\ Open(c) /\ ~wclosed[c]
    /\ Event
    /\ LET b == Payload(c, Len(sent[c]) + 1) IN
       /\ sent' = [sent EXCEPT ![c] = Append(sent[c], b)]
       /\ inbuf' = [inbuf EXCEPT ![c] = Append(inbuf[c], b)]
    /\ UNCHANGED <<peer, nconn, backlog, wclosed, reset, echoed>>
    /\ UNCHANGED <<server, loop, pool, copy>>

ClientShutdown(c) ==
    /\ Open(c) /\ ~wclosed[c]
    /\ Event
    /\ wclosed' = [wclosed EXCEPT ![c] = TRUE]
    /\ UNCHANGED <<peer, nconn, backlog, sent, inbuf, reset, echoed>>
    /\ UNCHANGED <<server, loop, pool, copy>>

ConnReset(c) ==
    /\ Open(c)
    /\ Event
    /\ reset' = [reset EXCEPT ![c] = TRUE]
    /\ UNCHANGED <<peer, nconn, backlog, sent, inbuf, wclosed, echoed>>
    /\ UNCHANGED <<server, loop, pool, copy>>

\* ------------------------------------------- a handler polls its NetStream
\* The operations of AsyncRead and AsyncWrite.
Ops == {"read", "write", "flush", "close"}

\* The outcomes the wrapped TcpStream of connection c can give for op.
TcpStream_poll(op, c, len) ==
    CASE op = "read"  -> TcpStream_poll_read(c)
      [] op = "write" -> TcpStream_poll_write(c, len)
      [] op = "flush" -> TcpStream_poll_flush(c)
      [] OTHER        -> TcpStream_poll_close(c)

\* One poll of op on the NetStream of the first connection by its handler:
\* NetStream::poll_read, poll_write, poll_flush or poll_close.  The calls
\* the NetStream makes reach the wrapped TcpStream, which moves the bytes.
StreamPoll(op) ==
    LET c == SplitConn
        rest == Drop(WriterBytes, Len(echoed[c]))
    IN
    /\ \E t \in running : ConnOf(t) = c
    /\ op = "write" => rest # <<>>
    /\ \E r1 \in TcpStream_poll(op, c, Len(rest)) :
       \E r2 \in (IF r1.tag = "Ready" /\ r1.n > 0 THEN {r1}
                  ELSE TcpStream_poll(op, c, Len(rest))) :
          LET d == Delegate(<<r1, r2>>)
              moved == IF d.calls = 1 THEN r1.n ELSE r1.n + r2.n
          IN
          /\ ret' = [op |-> op, tcp |-> r1, net |-> d.ret]
          /\ ncalls' = d.calls
          /\ IF op = "read"
               THEN /\ got' = got \o Take(inbuf[c], moved)
                    /\ inbuf' = [inbuf EXCEPT ![c] = Drop(inbuf[c], moved)]
                    /\ UNCHANGED echoed
               ELSE IF op = "write"
               THEN /\ echoed' = [echoed EXCEPT ![c] = echoed[c] \o Take(rest, moved)]
                    /\ UNCHANGED <<got, inbuf>>
               ELSE UNCHANGED <<got, inbuf, echoed>>
    /\ UNCHANGED <<peer, nconn, nevents, backlog, sent, wclosed, reset>>
    /\ UNCHANGED <<lock, lwaker, half, buf, read_done, web, holding>>
    /\ UNCHANGED <<server, loop, pool>>

\* ------------------------------------------- lusion-web: SecurityMiddleware
\* SecurityContext::new and SecurityContext::is_changed.
SecurityContext_new(id) == [identity |-> id, changed |-> FALSE]
is_changed(c) == c.changed

\* SecurityMiddleware::handle up to the call of the endpoint: the identity
\* the policy reads from the request becomes the request's SecurityContext.
\* The unwrap panics on a request from_request rejects: that request gets
\* no response from handle.
handle(hdr) ==
    /\ req.state = "idle"
    /\ Cardinality(served) < MaxReq
    /\ hdr \in ClientMade \cup issued
    /\ LET id == from_request(policy, hdr) IN
       IF id.ok
       THEN /\ req' = [state |-> "endpoint", header |-> hdr, seen |-> id.val]
            /\ sc' = SecurityContext_new(id.val)
            /\ UNCHANGED served
       ELSE /\ served' = served \cup {[header |-> hdr, panicked |-> TRUE,
                                        seen |-> None, forgot |-> FALSE]}
            /\ UNCHANGED <<req, sc>>
    /\ UNCHANGED <<policy, calls, resp, issued>>
    /\ UNCHANGED <<server, loop, pool, net, buf, read_done, split, pass, holding>>

\* One SecurityExt call of the endpoint on its Context.
Call(op) ==
    /\ req.state = "endpoint"
    /\ Len(calls) < MaxCalls
    /\ calls' = Append(calls, op)
    /\ UNCHANGED <<policy, req, resp, issued, served>>
    /\ UNCHANGED <<server, loop, pool, net, buf, read_done, split, pass, holding>>

\* SecurityExt::identity: a read.
identity ==
    /\ Call("identity")
    /\ UNCHANGED sc

\* SecurityExt::remember.
Remembered(c, id) == [identity |-> Some(id), changed |-> TRUE]
remember(id) ==
    /\ Call("remember")
    /\ sc' = Remembered(sc, id)

\* SecurityExt::forget.
ForgottenAlways(c) == [identity |-> None, changed |-> TRUE]
Forgotten(c) ==
    IF c.identity # None
    THEN [identity |-> None, changed |-> TRUE]
    ELSE c
forget ==
    /\ Call("forget")
    /\ sc' = Forgotten(sc)

\* The identity cookies of a response, as a client keeps them.
Sealed(r) ==
    {pr \in {r.set_cookie[i].pair : i \in DOMAIN r.set_cookie} : pr.key # ""}

\* SecurityMiddleware::handle from the endpoint's response on: the policy
\* writes the response when the context is changed, otherwise the
\* endpoint's response is the result.
respond(r) ==
    /\ req.state = "endpoint"
    /\ resp' = [inner |-> r,
                out |-> IF is_changed(sc)
                        THEN write_response(policy, sc.identity, r)
                        ELSE r]
    /\ issued' = issued \cup Sealed(resp'.out)
    /\ served' = served \cup {[header |-> req.header, panicked |-> FALSE,
                                seen |-> req.seen,
                                forgot |-> \E i \in DOMAIN calls : calls[i] = "forget"]}
    /\ req' = IdleRequest
    /\ sc' = SecurityContext_new(None)
    /\ calls' = <<>>
    /\ UNCHANGED policy
    /\ UNCHANGED <<server, loop, pool, net, buf, read_done, split, pass, holding>>

\* ------------------------------------------------------- specification
Tasks == {Task(h, NetStream_new(c)) : h \in Handlers, c \in Conns}

\* One step of the poll of task t by the worker thread that holds it.
Poll(t) ==
    \/ EchoRead(t)
    \/ EchoWrite(t)
    \/ EchoFinish(t)
    \/ OtherPoll(t)

Next ==
    \/ \E h \in Handlers : ConnectHandler(h)
    \/ \E a \in Addrs : ServeResolve(a)
    \/ ServeTakeHandler
    \/ ServeCreatePool
    \/ ServeBind
    \/ \E e \in AcceptErrs \cup IncomingEnds : AcceptErr(e)
    \/ AcceptSpawn
    \/ WorkerRun
    \/ \E t \in Tasks : Poll(t)
    \/ \E t \in Tasks : Wake(t)
    \/ PeerBind
    \/ ClientConnect
    \/ \E c \in Conns : ClientSend(c)
    \/ \E c \in Conns : ClientShutdown(c)
    \/ \E c \in Conns : ConnReset(c)

Spec == Init /\ [][Next]_vars

\* While serve runs the process lives: a worker thread that polls no task
\* takes the next one, a worker thread that polls a task goes on polling it,
\* and the reactor wakes every task whose stream is ready.
LiveSpec ==
    /\ Spec
    /\ WF_vars(pc = "serving" /\ WorkerRun)
    /\ \A t \in Tasks : WF_vars(pc = "serving" /\ Poll(t))
    /\ \A t \in Tasks : WF_vars(pc = "serving" /\ Wake(t))

\* The configuration and start-up of a server, up to the accept loop, for
\* every pool size a caller may want.
Startup ==
    \/ \E h \in Handlers : ConnectHandler(h)
    \/ \E a \in Addrs : ServeResolve(a)
    \/ ServeTakeHandler
    \/ ServeCreatePool
    \/ ServeBind

OverrideSpec == InitOverride /\ [][Startup]_vars

\* A server in its loop whose first connection was accepted and handed to
\* a handler that has split the stream and started the two tasks, and waits
\* for them.
InitSplit ==
    /\ want = {}
    /\ policy = CookieIdentityPolicy_default
    /\ pool_size \in 1..MaxPool
    /\ connect_handler = "None"
    /\ pc = "serving"
    /\ result = "none"
    /\ arg = "0.0.0.0:1234"
    /\ addr = iter_next(to_socket_addrs(arg).addrs)
    /\ handler = "other"
    /\ nworkers = ThreadPoolCreate(pool_size)
    /\ running = {}
    /\ listener = addr
    /\ nconn = 1
    /\ nevents = 1
    /\ yielded = [tag |-> "Ok", conn |-> nconn, err |-> ""]
    /\ accepted = <<nconn>>
    /\ lost = {}
    /\ queue = <<>>
    /\ suspended = {Task(handler, NetStream_new(nconn))}
    /\ invoked = <<NetStream_new(nconn)>>
    /\ tstate = [c \in Conns |-> IF c = nconn THEN "started" ELSE "none"]
    /\ outcome = [c \in Conns |-> "none"]
    /\ sock = [c \in Conns |-> IF c = nconn THEN "open" ELSE "none"]
    /\ log = <<>>
    /\ peer = "none"
    /\ backlog = <<>>
    /\ sent = [c \in Conns |-> <<>>]
    /\ inbuf = [c \in Conns |-> <<>>]
    /\ wclosed = [c \in Conns |-> FALSE]
    /\ reset = [c \in Conns |-> FALSE]
    /\ buf = [c \in Conns |-> <<>>]
    /\ read_done = [c \in Conns |-> FALSE]
    /\ echoed = [c \in Conns |-> <<>>]
    /\ lock = "free"
    /\ lwaker = "none"
    /\ half = [h \in Halves |-> "idle"]
    /\ got = <<>>
    /\ Idle

\* The two tasks and the peer of the split stream.
NextSplit ==
    \/ \E h \in Halves : PollLock(h)
    \/ HalfRead
    \/ HalfWrite
    \/ \E h \in Halves : IoWake(h)
    \/ \E c \in Conns : ClientSend(c)
    \/ \E c \in Conns : ClientShutdown(c)
    \/ \E c \in Conns : ConnReset(c)

\* The two tasks run on the pool: each is polled when it is runnable, and
\* the wakers fire.
SplitSpec ==
    /\ InitSplit /\ [][NextSplit]_vars
    /\ \A h \in Halves : WF_vars(PollLock(h))
    /\ WF_vars(HalfRead)
    /\ WF_vars(HalfWrite)
    /\ \A h \in Halves : WF_vars(IoWake(h))

\* A server in its loop whose first connection was accepted and handed to
\* a handler that a worker thread polls, and that polls its NetStream.
InitStream ==
    /\ want = {}
    /\ policy = CookieIdentityPolicy_default
    /\ pool_size \in 1..MaxPool
    /\ connect_handler = "None"
    /\ pc = "serving"
    /\ result = "none"
    /\ arg = "0.0.0.0:1234"
    /\ addr = iter_next(to_socket_addrs(arg).addrs)
    /\ handler = "other"
    /\ nworkers = ThreadPoolCreate(pool_size)
    /\ nconn = 1
    /\ running = {Task(handler, NetStream_new(nconn))}
    /\ listener = addr
    /\ nevents = 1
    /\ yielded = [tag |-> "Ok", conn |-> nconn, err |-> ""]
    /\ accepted = <<nconn>>
    /\ lost = {}
    /\ queue = <<>>
    /\ suspended = {}
    /\ invoked = <<NetStream_new(nconn)>>
    /\ tstate = [c \in Conns |-> IF c = nconn THEN "started" ELSE "none"]
    /\ outcome = [c \in Conns |-> "none"]
    /\ sock = [c \in Conns |-> IF c = nconn THEN "open" ELSE "none"]
    /\ log = <<>>
    /\ peer = "none"
    /\ backlog = <<>>
    /\ sent = [c \in Conns |-> <<>>]
    /\ inbuf = [c \in Conns |-> <<>>]
    /\ wclosed = [c \in Conns |-> FALSE]
    /\ reset = [c \in Conns |-> FALSE]
    /\ buf = [c \in Conns |-> <<>>]
    /\ read_done = [c \in Conns |-> FALSE]
    /\ echoed = [c \in Conns |-> <<>>]
    /\ lock = "free"
    /\ lwaker = "none"
    /\ half = [h \in Halves |-> "idle"]
    /\ got = <<>>
    /\ Idle

\* The polls of the handler and what the peer of its connection does.
NextStream ==
    \/ \E op \in Ops : StreamPoll(op)
    \/ ClientSend(SplitConn)
    \/ ClientShutdown(SplitConn)
    \/ ConnReset(SplitConn)

StreamSpec == InitStream /\ [][NextStream]_vars

\* A server that has entered its accept loop with a handler of any kind,
\* before the first client connects.
InitLoop ==
    /\ want = {}
    /\ policy = CookieIdentityPolicy_default
    /\ pool_size \in 1..MaxPool
    /\ connect_handler = "None"
    /\ pc = "serving"
    /\ result = "none"
    /\ arg = "0.0.0.0:1234"
    /\ addr = iter_next(to_socket_addrs(arg).addrs)
    /\ handler = "other"
    /\ nworkers = ThreadPoolCreate(pool_size)
    /\ running = {}
    /\ listener = addr
    /\ yielded = [tag |-> "none", conn |-> 0, err |-> ""]
    /\ accepted = <<>>
    /\ lost = {}
    /\ queue = <<>>
    /\ suspended = {}
    /\ invoked = <<>>
    /\ tstate = [c \in Conns |-> "none"]
    /\ outcome = [c \in Conns |-> "none"]
    /\ sock = [c \in Conns |-> "none"]
    /\ log = <<>>
    /\ peer = "none"
    /\ nconn = 0
    /\ nevents = 0
    /\ backlog = <<>>
    /\ sent = [c \in Conns |-> <<>>]
    /\ inbuf = [c \in Conns |-> <<>>]
    /\ wclosed = [c \in Conns |-> FALSE]
    /\ reset = [c \in Conns |-> FALSE]
    /\ buf = [c \in Conns |-> <<>>]
    /\ read_done = [c \in Conns |-> FALSE]
    /\ echoed = [c \in Conns |-> <<>>]
    /\ lock = "free"
    /\ lwaker = "none"
    /\ half = [h \in Halves |-> "idle"]
    /\ got = <<>>
    /\ Idle

\* The accept loop statement by statement, the pool and the clients that
\* connect.
NextLoop ==
    \/ LoopAccept
    \/ LoopSpawn
    \/ \E e \in AcceptErrs \cup IncomingEnds : LoopAcceptErr(e)
    \/ WorkerRun
    \/ \E t \in Tasks : OtherPoll(t)
    \/ \E t \in Tasks : Wake(t)
    \/ ClientConnect

LoopSpec == InitLoop /\ [][NextLoop]_vars

\* An application with the SecurityMiddleware installed, under any policy,
\* and the requests it handles.
InitWeb ==
    /\ want = {}
    /\ policy \in Policies
    /\ pool_size = 1
    /\ New

NextWeb ==
    \/ \E hdr \in ClientMade \cup issued : handle(hdr)
    \/ identity
    \/ \E id \in Users : remember(id)
    \/ forget
    \/ \E r \in EndpointResponses : respond(r)

WebSpec == InitWeb /\ [][NextWeb]_vars

\* The server with handlers whose polls may block their worker thread.
NextBlock ==
    \/ Next
    \/ \E t \in Tasks : OtherBlock(t)

\* The worker threads and the wakers are scheduled as in FairSpec; a poll
\* that blocks is never forced.
BlockSpec ==
    /\ Init /\ [][NextBlock]_vars
    /\ WF_vars(WorkerRun)
    /\ \A t \in Tasks : WF_vars(Poll(t))
    /\ \A t \in Tasks : WF_vars(Wake(t))

\* The worker threads are scheduled fairly for as long as the pool has
\* tasks: every task holds a clone of the ThreadPool, so the worker threads
\* outlive serve's own handle of the pool, and so do the wakers.
FairSpec ==
    /\ Spec
    /\ WF_vars(WorkerRun)
    /\ \A t \in Tasks : WF_vars(Poll(t))
    /\ \A t \in Tasks : WF_vars(Wake(t))

\* ---------------------------------------------------------------- claims
\* The number of places (the channel, a worker, the suspended tasks) that
\* hold a task whose stream wraps connection c.
Holders(c) ==
    Cardinality({i \in DOMAIN queue : ConnOf(queue[i]) = c})
    + Cardinality({t \in running : ConnOf(t) = c})
    + Cardinality({t \in suspended : ConnOf(t) = c})

Invoked(c) == \E i \in DOMAIN invoked : invoked[i].stream = c
Logged(c) == \E i \in DOMAIN log : log[i].by = c
IndexIn(s, x) == CHOOSE i \in DOMAIN s : s[i] = x

\* C1: every connection is accepted once, at most one task (one stream)
\* wraps it at any time, handle is called with accepted connections only and
\* no two calls of handle get the same connection.
C1_HandledAtMostOnce ==
    /\ \A i, j \in DOMAIN accepted : i # j => accepted[i] # accepted[j]
    /\ \A c \in Conns : Holders(c) <= 1
    /\ \A i \in DOMAIN invoked : invoked[i].stream \in Range(accepted)
    /\ \A i, j \in DOMAIN invoked :
           i # j => invoked[i].stream # invoked[j].stream

\* Two connections were handed to handle, and the copy of one of them is
\* between two reads.
C1_Witness ==
    /\ Len(invoked) >= 2
    /\ \E c \in Conns : tstate[c] = "started" /\ Holders(c) = 1
                          /\ echoed[c] # <<>> /\ buf[c] = <<>>
                          /\ inbuf[c] # <<>>

\* The conditions of an accepted connection.
Waiting(c) == ~Invoked(c) /\ Holders(c) = 1 /\ outcome[c] = "none"
Handling(c) == Invoked(c) /\ Holders(c) = 1 /\ outcome[c] = "none"
DoneOk(c) == outcome[c] = "Ok" /\ Holders(c) = 0
Reported(c) ==
    /\ Holders(c) = 0
    /\ outcome[c] # "Ok"
    /\ \/ Logged(c)
       \/ c \in lost /\ pc = "returned" /\ result = ErrSpawn

\* C2: every accepted connection is in exactly one condition: its task waits
\* in the channel and was never polled; its handler was invoked and has not
\* returned (the task is held by a worker, the channel or its waker); its
\* handler returned Ok; an error about it was logged or returned from serve.
C2_NoSilentDrop ==
    \A c \in Range(accepted) :
        Cardinality({k \in 1..4 :
            CASE k = 1 -> Waiting(c)
              [] k = 2 -> Handling(c)
              [] k = 3 -> DoneOk(c)
              [] OTHER -> Reported(c)}) = 1

\* One connection's handler failed and was logged, and the task of another
\* was refused by the pool.
C2_Witness ==
    /\ lost # {}
    /\ \E c \in Range(accepted) : Logged(c) /\ outcome[c] \notin {"none", "Ok"}

\* C3: when the address resolved and no handler was configured, serve has
\* returned the handler-not-set error, no pool exists, no socket is bound,
\* and nothing was accepted.
C3_HandlerNotSet ==
    (addr # "none" /\ pc # "resolved" /\ handler = "None") =>
        /\ pc = "returned"
        /\ result = ErrHandlerNotSet
        /\ nworkers = 0
        /\ listener = "none"
        /\ accepted = <<>> /\ nconn = 0

C3_Witness ==
    /\ pc = "returned" /\ result = ErrHandlerNotSet
    /\ addr \in {"0.0.0.0:1234", "127.0.0.1:1234"}

Started(c) == Invoked(c) /\ outcome[c] = "none"
Executing(c) == \E t \in running : ConnOf(t) = c

\* C4 as stated: the handler invocations that have started and have not
\* completed are at most pool_size.
C4_StartedAtMostPoolSize ==
    Cardinality({c \in Conns : Started(c)}) <= pool_size

\* C4, amended: the handler invocations that a worker thread is executing
\* (polling) are at most pool_size, and no task that was spawned and has not
\* finished is dropped: it is in the channel, on a worker or with its waker.
C4_PolledAtMostPoolSize ==
    /\ Cardinality(running) <= pool_size
    /\ \A c \in Conns : tstate[c] \in {"spawned", "started"} => Holders(c) = 1

\* Every worker is busy and a further task waits in the channel.
C4_Witness ==
    /\ pc = "serving"
    /\ Cardinality({c \in Conns : Executing(c)}) = pool_size
    /\ \E i \in DOMAIN queue : ~Invoked(ConnOf(queue[i]))

Fails(c) == outcome[c] = "none" /\ outcome'[c] \notin {"none", "Ok"}
SameConn(d) ==
    /\ tstate'[d] = tstate[d] /\ outcome'[d] = outcome[d]
    /\ buf'[d] = buf[d] /\ read_done'[d] = read_done[d]
    /\ inbuf'[d] = inbuf[d] /\ echoed'[d] = echoed[d]

\* C5: a step in which a handler returns Err changes neither where serve
\* stands nor what the listener holds, frees the worker that polled it, and
\* leaves every other task and connection as it was.
C5_HandlerErrIsolated ==
    [][\A c \in Conns : Fails(c) =>
          /\ pc' = pc /\ result' = result
          /\ listener' = listener /\ handler' = handler
          /\ backlog' = backlog /\ accepted' = accepted
          /\ queue' = queue /\ suspended' = suspended
          /\ \A d \in Conns \ {c} : SameConn(d)
          /\ nworkers' = nworkers
          /\ running' = {t \in running : ConnOf(t) # c}]_vars

\* A handler failed, the server went on serving, and a connection accepted
\* after that failure was handled to Ok.
C5_Witness ==
    /\ pc = "serving"
    /\ \E i \in DOMAIN log, d \in Range(accepted) :
          /\ IndexIn(accepted, d) > log[i].seen
          /\ outcome[d] = "Ok"

\* The errors serve makes or passes on itself.
FatalErrs ==
    {ErrResolve, ErrInvalidInput, ErrHandlerNotSet, ErrPoolCreate, ErrBind,
     ErrSpawn} \cup AcceptErrs

\* C6: what serve returns is one of its own fatal errors, and no step in
\* which a handler future completes changes what serve returns or where it
\* stands.
C6_NoHandlerErrReturned ==
    /\ [](result = "none" \/ result \in FatalErrs)
    /\ [][(\E c \in Conns : outcome'[c] # outcome[c]) =>
             (result' = result /\ pc' = pc)]_vars

\* Handlers failed and were logged, and serve later returned another error.
C6_Witness ==
    /\ pc = "returned" /\ result \in FatalErrs
    /\ log # <<>>
    /\ \A i \in DOMAIN log : log[i].err # result

NothingAccepted ==
    /\ accepted' = accepted /\ backlog' = backlog /\ lost' = lost
    /\ \A c \in Conns : tstate[c] = "none" => tstate'[c] = "none"

\* C7: the iteration in which the listener yields an error returns that very
\* error from serve and submits nothing; once serve has returned it, nothing
\* more is accepted or spawned.
C7_AcceptErrStops ==
    [][/\ (pc = "serving" /\ yielded'.tag = "Err") =>
            /\ pc' = "returned" /\ result' = yielded'.err
            /\ queue' = queue /\ NothingAccepted
       /\ (pc = "returned" /\ result \in AcceptErrs) =>
            /\ pc' = pc /\ result' = result /\ NothingAccepted]_vars

\* serve returned the listener's error after accepting a connection, and a
\* further connection is left in the backlog.
C7_Witness ==
    /\ pc = "returned" /\ result \in AcceptErrs /\ result = yielded.err
    /\ accepted # <<>> /\ backlog # <<>>

\* C8: the iteration in which the pool refuses a task returns the error made
\* of the SpawnError from serve; once it has, nothing more is accepted.
C8_SpawnErrStops ==
    [][/\ lost' # lost =>
            /\ pc = "serving" /\ pc' = "returned" /\ result' = ErrSpawn
            /\ queue' = queue /\ tstate' = tstate
       /\ lost # {} =>
            /\ pc' = "returned" /\ result' = ErrSpawn
            /\ accepted' = accepted /\ backlog' = backlog /\ lost' = lost]_vars

\* The pool refused a connection's task while the task of an earlier
\* connection is still held by the pool.
C8_Witness ==
    /\ pc = "returned" /\ result = ErrSpawn
    /\ lost # {}
    /\ \E c \in Range(accepted) : c \notin lost /\ Holders(c) = 1

\* C9: with the echo handler, for every connection the bytes written back,
\* then the bytes read and not yet written, then the bytes received and not
\* yet read are exactly the bytes its client sent, in order; every byte
\* written back on a connection came from that connection; and when the
\* handler has returned Ok everything sent was written back.
C9_EchoExact ==
    handler = "echo" =>
        \A c \in Conns :
            /\ echoed[c] \o buf[c] \o inbuf[c] = sent[c]
            /\ \A i \in DOMAIN echoed[c] : echoed[c][i][1] = c
            /\ outcome[c] = "Ok" => echoed[c] = sent[c]

\* Two connections open at the same time each got all their bytes back.
C9_Witness ==
    /\ handler = "echo"
    /\ \A c \in 1..2 : Len(sent[c]) >= 1 /\ echoed[c] = sent[c]
    /\ \E c \in 1..2 : outcome[c] = "none"

\* The echo handler of connection c has not returned, the client has closed
\* its write side and has been echoed everything it sent.
EchoedAll(c) ==
    /\ handler = "echo" /\ tstate[c] \in {"spawned", "started"}
    /\ wclosed[c] /\ echoed[c] = sent[c]
\* The handler of connection c has returned Ok, or the transport has failed,
\* or serve has returned.
EchoEnded(c) == outcome[c] = "Ok" \/ reset[c] \/ pc = "returned"

\* C10: with the echo handler, while serve runs and the transport does not
\* fail, a connection whose client has closed its write side and has been
\* echoed everything it sent sees its handler return Ok (it stays in that
\* situation until then, and never for ever); a handler returns Ok only
\* after the zero-byte read, and then nothing is logged for it.
C10_EchoCompletes ==
    /\ [][\A c \in Conns : (EchoedAll(c) /\ ~EchoEnded(c)') => EchoedAll(c)']_vars
    /\ \A c \in Conns : []<>(EchoedAll(c) => EchoEnded(c))
    /\ [](\A c \in Conns :
             (handler = "echo" /\ outcome[c] = "Ok") =>
                 read_done[c] /\ wclosed[c] /\ ~Logged(c))

\* The client sent its bytes, got them back, closed its write side, and the
\* handler returned Ok with nothing logged.
C10_Witness ==
    /\ pc = "serving" /\ handler = "echo" /\ log = <<>>
    /\ \E c \in Conns :
          /\ Len(sent[c]) >= 2 /\ echoed[c] = sent[c] /\ wclosed[c]
          /\ read_done[c] /\ outcome[c] = "Ok"

\* C11: while serve is in its loop and a connection is pending, the step that
\* accepts and submits it is enabled, whatever is queued, running or
\* suspended in the pool; and a handler is invoked only in a step that
\* starts with a worker thread polling no task.
C11_AcceptNeverWaits ==
    /\ []((pc = "serving" /\ backlog # <<>>) => ENABLED AcceptSpawn)
    /\ [][Len(invoked') > Len(invoked) => Cardinality(running) < nworkers]_vars

\* pool_size is 1, two connections were accepted while the handler of the
\* first is being polled and has not finished, and the task of the second
\* waits in the channel, not started.
C11_Witness ==
    /\ pool_size = 1 /\ pc = "serving"
    /\ Len(accepted) = 2
    /\ outcome[accepted[1]] = "none" /\ Executing(accepted[1])
    /\ tstate[accepted[2]] = "spawned" /\ ~Invoked(accepted[2])

\* C12: under fair scheduling of the worker threads, every task that was
\* sent on the pool's channel is eventually polled for the first time (its
\* handler is invoked), whatever is queued ahead of it.  A task leaves the
\* state of being sent and not yet polled only by the invocation of its
\* handler, and no task stays in that state for ever.
C12_SubmittedEventuallyStarts ==
    /\ [][\A c \in Conns :
            (tstate[c] = "spawned" /\ tstate'[c] # "spawned") => Invoked(c)']_vars
    /\ \A c \in Conns : []<>(tstate[c] = "spawned" => Invoked(c))

\* With one worker thread, the task of the second connection was started
\* while the handler of the first, spawned ahead of it, has not completed.
C12_Witness ==
    /\ pool_size = 1
    /\ Len(accepted) = 2
    /\ outcome[accepted[1]] = "none" /\ Invoked(accepted[1])
    /\ tstate[accepted[2]] = "started" /\ Invoked(accepted[2])

C14_BindBeforePool ==
    /\ nworkers > 0 => listener # "none"
    /\ (pc = "returned" /\ result = ErrBind) => nworkers = 0

\* C14, amended: the steps happen in the order address resolution, creation
\* of the worker pool, bind, accept loop: a pool exists only with a resolved
\* address, a bound socket only beside a pool, a connection is accepted only
\* on a bound socket, and when a step fails serve has returned its error
\* and nothing of the later steps exists.
C14_StartupOrder ==
    /\ nworkers > 0 => addr # "none"
    /\ listener # "none" => nworkers > 0
    /\ (accepted # <<>> \/ nconn > 0) => listener # "none"
    /\ result \in {ErrResolve, ErrInvalidInput} =>
           /\ pc = "returned"
           /\ addr = "none" /\ nworkers = 0 /\ listener = "none"
           /\ accepted = <<>>
    /\ result = ErrPoolCreate =>
           /\ pc = "returned"
           /\ nworkers = 0 /\ listener = "none" /\ accepted = <<>>
    /\ result = ErrBind =>
           /\ pc = "returned"
           /\ listener = "none" /\ accepted = <<>>

\* The bind failed after the pool had been created.
C14_Witness ==
    /\ pc = "returned" /\ result = ErrBind
    /\ nworkers = pool_size /\ listener = "none"

\* C15: the address serve works with and binds is the first one its argument
\* resolves to, the bound address is never any other, and when the
\* resolution fails or gives no address serve has returned that error with
\* no pool created and no socket bound.
C15_FirstAddressOnly ==
    LET r == to_socket_addrs(arg) IN
    /\ addr # "none" => (r.ok /\ r.addrs # <<>> /\ addr = r.addrs[1])
    /\ listener # "none" => listener = r.addrs[1]
    /\ (arg # "none" /\ ~r.ok) =>
           /\ pc = "returned" /\ result = ErrResolve
           /\ nworkers = 0 /\ listener = "none"
    /\ (arg # "none" /\ r.ok /\ r.addrs = <<>>) =>
           /\ pc = "returned" /\ result = ErrInvalidInput
           /\ nworkers = 0 /\ listener = "none"

\* The argument resolved to two addresses and serve accepts connections on
\* the first.
C15_Witness ==
    /\ arg = "localhost:1234" /\ Len(to_socket_addrs(arg).addrs) = 2
    /\ listener = "127.0.0.1:1234"
    /\ accepted # <<>>

\* C16: a failed bind makes serve return the bind error in that very step,
\* with no socket bound and no connection accepted, and serve does nothing
\* after it (no second attempt); a server never listens on an address the
\* other server holds; and when the other server's bind fails because this
\* one is listening, this one goes on serving, untouched.
C16_BindErrStops ==
    /\ [](result = ErrBind =>
            /\ pc = "returned" /\ listener = "none"
            /\ accepted = <<>> /\ nconn = 0)
    /\ [](~(peer = "bound" /\ pc = "serving"))
    /\ [][/\ (result' = ErrBind /\ result # ErrBind) =>
               (pc = "pooled" /\ pc' = "returned" /\ listener' = listener)
          /\ result = ErrBind =>
               (pc' = pc /\ result' = result /\ listener' = listener
                /\ accepted' = accepted /\ nconn' = nconn)
          /\ (peer' = ErrBind /\ peer # ErrBind) =>
               /\ pc = "serving" /\ listener = addr
               /\ UNCHANGED <<server, loop, pool, copy>>]_vars

\* The other server holds the address and serve has returned the bind error.
C16_Witness ==
    /\ peer = "bound"
    /\ pc = "returned" /\ result = ErrBind
    /\ listener = "none" /\ nworkers = pool_size

\* The other server's bind failed on this server's address, and this server
\* has handled a connection to Ok since it started listening.
C16_SecondFails ==
    /\ peer = ErrBind /\ pc = "serving"
    /\ \E c \in Range(accepted) : outcome[c] = "Ok"

\* C17: no step changes pool_size; the pool, once created, has exactly
\* pool_size worker threads; and no step after its creation changes their
\* number.
C17_PoolSizeFixed ==
    /\ [](nworkers \in {0, pool_size})
    /\ [][pool_size' = pool_size]_vars
    /\ [][nworkers # 0 => nworkers' = nworkers]_vars

\* A pool of two workers after connect_handler was called, with a handler
\* that failed, a handler that returned Ok, and serve still in its loop.
C17_Witness ==
    /\ pc = "serving" /\ handler # "None"
    /\ pool_size = 2 /\ nworkers = 2
    /\ log # <<>>
    /\ \E c \in Conns : outcome[c] = "Ok"

\* C18: the pool serve creates has the number of worker threads the caller
\* asked for, and as many as there are logical CPUs (the value new put in
\* pool_size) when the caller asked for none.
C18_PoolSizeOverride ==
    nworkers > 0 =>
        IF want = {} THEN nworkers = pool_size ELSE nworkers \in want

\* The lifecycle state of the Server value: Unconfigured (built, no
\* handler), Configured (built, handler set), Serving (inside serve),
\* Terminated (serve has returned).
Phase ==
    CASE pc = "built" /\ connect_handler = "None" -> "Unconfigured"
      [] pc = "built" /\ connect_handler # "None" -> "Configured"
      [] pc = "returned" -> "Terminated"
      [] OTHER -> "Serving"
PhaseRank(ph) ==
    CASE ph = "Unconfigured" -> 0
      [] ph = "Configured" -> 1
      [] ph = "Serving" -> 2
      [] OTHER -> 3

\* C19: the lifecycle state never moves backward; serve is entered at most
\* once (no step leads back to a Server on which serve can be called); the
\* accept loop runs only with a configured handler; and once serve has
\* returned no step changes the Server, its result, its listener or what it
\* has accepted, and no task is spawned.
C19_Lifecycle ==
    /\ [](pc = "serving" => handler # "None")
    /\ [][PhaseRank(Phase') >= PhaseRank(Phase)]_vars
    /\ [][pc # "built" => pc' # "built"]_vars
    /\ [][pc = "returned" =>
             /\ pc' = "returned" /\ result' = result
             /\ connect_handler' = connect_handler /\ handler' = handler
             /\ listener' = listener
             /\ accepted' = accepted /\ backlog' = backlog
             /\ \A c \in Conns :
                    tstate[c] = "none" => tstate'[c] = "none"]_vars

\* serve has returned after its loop accepted connections, a client that
\* connected before the return is still pending, and a task goes on in the
\* pool.
C19_Witness ==
    /\ pc = "returned" /\ result \in AcceptErrs
    /\ handler # "None"
    /\ backlog # <<>>
    /\ running # {}

\* The tasks the pool holds: in its channel, on a worker, with a waker.
Held == Range(queue) \cup running \cup suspended

\* C20: the handler serve works with is the one the Server held when serve
\* took it, and it never changes afterwards; every task the pool holds
\* carries that handler; and every step that invokes a handler invokes that
\* one.
C20_SameHandler ==
    /\ [](\A t \in Held : t.handler = handler /\ handler \in Handlers)
    /\ [][handler' # handler =>
             (handler = "None" /\ handler' = connect_handler)]_vars
    /\ [][Len(invoked') > Len(invoked) =>
             \A t \in running' \ running : t.handler = handler']_vars

\* connect_handler was called with the echo function last; two
\* connections were handled by it, one to its end and one still going on.
C20_Witness ==
    /\ handler = "echo"
    /\ Len(invoked) = 2
    /\ \E t \in Held : t.handler = "echo" /\ echoed[ConnOf(t)] # <<>>
    /\ \E c \in Conns : outcome[c] = "Ok"

\* C21: the records logged for the failures of two different connections
\* can be told apart by what they say, so that a record identifies the
\* connection that failed.
C21_LogIdentifiesConn ==
    \A i, j \in DOMAIN log :
        log[i].by # log[j].by => RecordText(log[i]) # RecordText(log[j])

\* C22: a connection has a socket from its accept on; the socket is open
\* for as long as its task is queued, running or suspended; it is closed
\* when the handler's future has completed, with Ok or with Err, and the
\* step that closes an open socket is the step in which that future
\* completes.  (The socket of a task the pool refused is closed with the
\* task: no handler was invoked for it.)
C22_SocketLifetime ==
    /\ [](\A c \in Conns :
             /\ sock[c] = "none" <=> c \notin Range(accepted)
             /\ tstate[c] \in {"spawned", "started"} => sock[c] = "open"
             /\ Holders(c) = 1 => sock[c] = "open"
             /\ outcome[c] # "none" => sock[c] = "closed"
             /\ c \in lost => sock[c] = "closed")
    /\ [][\A c \in Conns :
             (sock[c] = "open" /\ sock'[c] # "open") =>
                 /\ sock'[c] = "closed"
                 /\ outcome[c] = "none" /\ outcome'[c] # "none"
                 /\ Executing(c)]_vars

\* The handler of one connection has failed and its socket is closed, while
\* the socket of another, whose handler is suspended, is open after serve
\* has returned.
C22_Witness ==
    /\ pc = "returned"
    /\ \E c \in Conns : sock[c] = "closed" /\ Logged(c)
    /\ \E t \in suspended : sock[ConnOf(t)] = "open"

\* C23: with the two halves of one stream driven by two tasks, the lock
\* between them is held only inside a poll, never by a half that waits; a
\* half parked on the lock is always woken; the bytes read are, in order,
\* the first bytes the peer sent; and the bytes that left are, in order, the
\* first bytes the writer wrote.
C23_SplitHalves ==
    /\ [](lock # "free" => half[lock] = "locked")
    /\ [](lwaker # "none" => (half[lwaker] = "parked" /\ lock # "free"))
    /\ [](got \o inbuf[SplitConn] = sent[SplitConn])
    /\ [](echoed[SplitConn] = Take(WriterBytes, Len(echoed[SplitConn])))
    /\ \A h \in Halves : (half[h] = "parked") ~> (half[h] # "parked")

\* The reader has read two bytes, the writer has written one, and the
\* reader is parked on the lock while the writer is inside its poll.
C23_Witness ==
    /\ Len(got) = 2
    /\ Len(echoed[SplitConn]) >= 1
    /\ half["r"] = "parked" /\ lock = "w" /\ lwaker = "r"

\* C24 as stated: once as many handler invocations as the pool has workers
\* are in progress and never return, no handler of another connection is
\* invoked from then on.
C24_NeverReturningHoldsSlot ==
    \A S \in SUBSET Conns : \A d \in Conns \ S :
        []((/\ Cardinality(S) = pool_size
            /\ \A c \in S : Started(c)
            /\ ~Invoked(d))
           => ([](\A c \in S : Started(c)) => [](~Invoked(d))))

\* The connections whose handler blocks its worker thread.
Blocked == {c \in Conns : tstate[c] = "blocked"}

\* C24, amended: a handler whose poll does not return keeps its worker
\* thread for ever and nothing cancels it; once every worker of the pool is
\* held that way no handler is invoked and no task is polled any more; and
\* the accept loop still accepts and submits every pending connection.
C24_BlockedHoldsWorker ==
    /\ [][\A c \in Blocked :
             /\ tstate'[c] = "blocked" /\ outcome'[c] = "none"
             /\ sock'[c] = "open"
             /\ \E t \in running' : ConnOf(t) = c]_vars
    /\ [][(nworkers > 0 /\ Cardinality(Blocked) = nworkers) =>
             (invoked' = invoked /\ running' = running)]_vars
    /\ []((Cardinality(Blocked) = nworkers /\ pc = "serving"
            /\ backlog # <<>>) => ENABLED AcceptSpawn)

\* Every worker is held by a handler that blocks, and a connection accepted
\* after that waits in the channel, its handler not invoked.
C24_Witness ==
    /\ nworkers > 0 /\ Cardinality(Blocked) = nworkers
    /\ \E c \in Conns :
          /\ tstate[c] = "spawned" /\ ~Invoked(c)
          /\ \A b \in Blocked : IndexIn(accepted, b) < IndexIn(accepted, c)

\* The steps of one request through the SecurityMiddleware.
HandleStep == req.state = "idle" /\ req'.state = "endpoint"
CallStep(op) == calls' = Append(calls, op)
RespondStep == req.state = "endpoint" /\ req'.state = "idle"
\* The response handle returns is the endpoint's with one Set-Cookie header
\* of the policy's cookie appended.
Written(r) ==
    \E h \in {SetCookie(pr, policy.path, rm) :
                pr \in {Pair(policy.name, k, v) :
                          k \in {"", policy.key},
                          v \in {<<>>} \cup {to_string(u) : u \in Users}},
                rm \in BOOLEAN} :
        r.out.set_cookie = Append(r.inner.set_cookie, h)
\* How the endpoint's calls mark the context: remember always, forget when
\* an identity is present, a read never; a new context is not changed.
C25_Marks ==
    /\ [][HandleStep => ~sc'.changed]_vars
    /\ [][CallStep("remember") => sc'.changed]_vars
    /\ [][CallStep("forget") =>
            sc'.changed = (sc.changed \/ sc.identity # None)]_vars
    /\ [][CallStep("identity") => sc' = sc]_vars

\* C25 as stated: the response carries a Set-Cookie header written by the
\* policy exactly when the endpoint changed the security context, and is
\* the endpoint's response, untouched, when it did not.
C25_SetCookieIffChanged ==
    /\ C25_Marks
    /\ [][RespondStep =>
            /\ Written(resp') <=> sc.changed
            /\ ~sc.changed => resp'.out = resp'.inner]_vars

\* C25, amended: remember always marks the context changed, forget only
\* when an identity is present, a read never.  A response whose context is
\* not changed is the endpoint's response, untouched.  A response whose
\* context is changed is the endpoint's response with one Set-Cookie
\* header appended, the sealed identity (which from_request reads back) or
\* the removal of the cookie, when that header is a valid header value;
\* when it is not, the response is an empty 500 response that carries no
\* Set-Cookie header at all.
C25_SetCookieWhenChanged ==
    /\ C25_Marks
    /\ [][RespondStep =>
            /\ ~sc.changed => (resp'.out = resp'.inner /\ ~Written(resp'))
            /\ (sc.changed /\ Visible(policy.path)) =>
                  /\ Written(resp')
                  /\ LET h == resp'.out.set_cookie[Len(resp'.out.set_cookie)] IN
                       /\ h.removal = (sc.identity = None)
                       /\ from_request(policy, h.pair).val = sc.identity
                  /\ resp'.out.status = resp'.inner.status
                  /\ resp'.out.body = resp'.inner.body
            /\ (sc.changed /\ ~Visible(policy.path)) =>
                  /\ resp'.out.status = 500
                  /\ resp'.out.set_cookie = <<>>
                  /\ resp'.out.body = ""]_vars

\* A request whose endpoint forgot an identity got the removal cookie, and
\* a request whose endpoint forgot with no identity present was served.
C25_Witness ==
    /\ req.state = "idle"
    /\ Written(resp)
    /\ resp.out.set_cookie[Len(resp.out.set_cookie)].removal
    /\ resp.inner.set_cookie # <<>>
    /\ \E r \in served : r.forgot /\ r.seen = None /\ ~r.panicked
    /\ \E r \in served : r.forgot /\ r.seen # None

\* The requests whose endpoint ran or runs, each with the Cookie header it
\* carries and the identity its context was built with.
Seen ==
    {[header |-> r.header, seen |-> r.seen] : r \in {q \in served : ~q.panicked}}
      \cup (IF req.state = "endpoint"
            THEN {[header |-> req.header, seen |-> req.seen]}
            ELSE {})
\* The cookie a client is sent after remember(u).
IssuedFor(u) == Pair(policy.name, policy.key, to_string(u))

\* C26: the identity a request is seen with depends on the cookie it
\* carries and on nothing else: two requests with the same Cookie header
\* are seen alike; a request without the auth cookie (no cookie, a cookie
\* of another name, a cookie not sealed by the server's key) is anonymous;
\* a request with the cookie issued for a user is seen as that user, also
\* when a request that forgot was served with that same cookie before.
C26_IdentityFromCookieOnly ==
    /\ \A a, b \in Seen : a.header = b.header => a.seen = b.seen
    /\ \A a \in Seen :
          /\ a.header.kind = "none" => a.seen = None
          /\ a.header.name # policy.name => a.seen = None
          /\ a.header.key # policy.key => a.seen = None
          /\ \A u \in Users : a.header = IssuedFor(u) => a.seen = Some(u)
    /\ \A u \in Users :
          (/\ req.state = "endpoint"
           /\ req.header = IssuedFor(u)
           /\ \E r \in served : r.header = req.header /\ r.forgot)
          => (req.seen = Some(u) /\ (calls = <<>> => sc.identity = Some(u)))

\* A request carries the cookie issued for "user", with which a request
\* that forgot was served before, and its endpoint sees "user"; a request
\* with no cookie and one with a cookie sealed by another key were served.
C26_Witness ==
    /\ req.state = "endpoint"
    /\ req.header = IssuedFor("user")
    /\ calls = <<>>
    /\ sc.identity = Some("user")
    /\ \E r \in served : r.header = req.header /\ r.forgot /\ r.seen = Some("user")
    /\ \E r \in served : r.header \in ClientMade /\ ~r.panicked

\* serve was called on a Server no handler was configured on.
Unconfigured == pc # "built" /\ connect_handler = "None" /\ handler = "None"

\* C27 as stated: whenever no handler was configured serve returns the
\* handler-not-set error, whatever the address, and no pool is created and
\* no socket bound.
C27_HandlerCheckFirst ==
    Unconfigured =>
        /\ pc = "returned" => result = ErrHandlerNotSet
        /\ nworkers = 0
        /\ listener = "none"

\* C27, amended: the handler check comes after the resolution of the
\* address and before the pool and the socket.  With no handler configured
\* serve returns the resolution error for an address that does not resolve
\* or resolves to nothing, the handler-not-set error for every other
\* address, and in both cases no pool is created, no socket bound and
\* nothing accepted.
C27_HandlerCheckAfterResolve ==
    Unconfigured =>
        /\ pc \in {"resolved", "returned"}
        /\ pc = "returned" =>
              result = (IF ~to_socket_addrs(arg).ok THEN ErrResolve
                        ELSE IF to_socket_addrs(arg).addrs = <<>> THEN ErrInvalidInput
                        ELSE ErrHandlerNotSet)
        /\ pc = "resolved" => addr = iter_next(to_socket_addrs(arg).addrs)
        /\ nworkers = 0
        /\ listener = "none"
        /\ accepted = <<>> /\ nconn = 0

\* serve was called with no handler and an address that does not resolve,
\* and has returned the resolution error.
C27_Witness ==
    /\ Unconfigured
    /\ pc = "returned"
    /\ arg = "nohost:1234"
    /\ result = ErrResolve

\* The handler invocations that have completed with Err.
Failed == {c \in Conns : outcome[c] \notin {"none", "Ok"}}
\* The log records the task of connection c wrote.
RecordsOf(c) == {i \in DOMAIN log : log[i].by = c}

\* C28: at any time there are as many log records as handler invocations
\* that have completed with Err: the task of each such invocation wrote
\* exactly one, with the error the handler returned, and the task of an
\* invocation that returned Ok or has not returned wrote none; a record
\* once written stays, and one is written only by the step in which a
\* handler invocation completes with Err.
C28_OneRecordPerErr ==
    /\ [](Len(log) = Cardinality(Failed))
    /\ [](\A c \in Conns :
             /\ Cardinality(RecordsOf(c)) = (IF c \in Failed THEN 1 ELSE 0)
             /\ \A i \in RecordsOf(c) : log[i].err = outcome[c])
    /\ [][/\ Len(log') >= Len(log)
          /\ Take(log', Len(log)) = log
          /\ Len(log') > Len(log) =>
                \E c \in Conns : /\ outcome[c] = "none" /\ c \in Failed'
                                 /\ log' = Append(log, log'[Len(log')])
                                 /\ log'[Len(log')].by = c]_vars

\* One handler invocation has returned Ok and one Err, and the log holds
\* the one record of the second.
C28_Witness ==
    /\ \E c, d \in Conns : outcome[c] = "Ok" /\ d \in Failed
    /\ Len(log) = 1

\* A step in which the handler polls its NetStream.
PollStep == nevents' = nevents /\ <<ret, ncalls, got, inbuf, echoed>>' # <<ret, ncalls, got, inbuf, echoed>>
\* The bytes the poll recorded in r moved, when it was a poll of which.
Moved(r, which) == IF r.op = which /\ r.net.tag = "Ready" THEN r.net.n ELSE 0

\* C29: every poll of read, write, flush or close on a NetStream makes one
\* call on the wrapped TcpStream and returns what that call returned: the
\* byte count, Pending or the I/O error, with no second call after an
\* error.  The NetStream has no state of its own: the bytes that leave the
\* receive buffer and that reach the peer are those the returned count
\* says, so the stream is left as the bare connection would be.
C29_NetStreamPassThrough ==
    /\ [](ret.net = ret.tcp)
    /\ [](ret.op # "none" => ncalls = 1)
    /\ [](got \o inbuf[SplitConn] = sent[SplitConn])
    /\ [](echoed[SplitConn] = Take(WriterBytes, Len(echoed[SplitConn])))
    /\ [][PollStep =>
            /\ ret'.op \in Ops
            /\ ret'.net \in TcpStream_poll(ret'.op, SplitConn,
                                           MaxWrite - Len(echoed[SplitConn]))
            /\ Len(got') = Len(got) + Moved(ret', "read")
            /\ Len(echoed'[SplitConn]) =
                  Len(echoed[SplitConn]) + Moved(ret', "write")
            /\ running' = running]_vars

\* The handler has read and written bytes through its NetStream, the
\* connection was reset, and the poll after that returned the I/O error.
C29_Witness ==
    /\ ret.op \in {"read", "write"}
    /\ ret.net.tag = "Err" /\ ret.net.err = ErrReset
    /\ ncalls = 1
    /\ got # <<>>
    /\ echoed[SplitConn] # <<>>

\* The accepted connections whose task was given to the pool, or refused
\* by it.
Submitted == {c \in Range(accepted) : tstate[c] # "none" \/ c \in lost}

\* C30: the loop holds at most one accepted connection that is not yet
\* submitted, and it is the last one accepted; when a connection is
\* accepted every connection accepted before it has been submitted to the
\* pool (a refused submission stops the loop: nothing is accepted after
\* it); and each task enters the pool's channel behind the tasks submitted
\* before it, in the order of the accepts.
C30_AcceptSequential ==
    /\ [](Len(holding) <= 1)
    /\ [](holding # <<>> => holding = <<accepted[Len(accepted)]>>)
    /\ [](Range(accepted) \ Submitted = Range(holding))
    /\ [](lost # {} => pc = "returned")
    /\ [][Len(accepted') > Len(accepted) =>
            /\ pc = "serving"
            /\ Range(accepted) = Submitted
            /\ lost = {}]_vars
    /\ [][\A c \in Conns :
            (tstate[c] = "none" /\ tstate'[c] # "none") =>
               /\ c = accepted[Len(accepted)]
               /\ queue' = Append(queue, Task(handler, NetStream_new(c)))
               /\ \A d \in Range(accepted) \ {c} : tstate[d] # "none"]_vars

\* The second connection was accepted and is not yet submitted, while the
\* task of the first is in the pool and no worker has taken it.
C30_Witness ==
    /\ Len(accepted) = 2
    /\ holding = <<accepted[2]>>
    /\ tstate[accepted[1]] = "spawned"
    /\ queue # <<>>
====
